---- MODULE Spec2Model ----
(***************************************************************************)
(* The statement compiler of query/compile.go: Compile turns the fields of *)
(* a SELECT statement into a graph of nodes and edges, links the shared    *)
(* AuxiliaryFields node, validates the shape of the query, and Select      *)
(* hands the result edges to the plan.                                     *)
(*                                                                         *)
(* The graph is an arena: nodes and edges are numbered in the order the    *)
(* code allocates them, and a pointer is the number (nil is 0).  An edge   *)
(* number stands for the *OutputEdge the compiler keeps; Producer is the   *)
(* node of the InputEdge it is paired with, Consumer is OutputEdge.Node.   *)
(***************************************************************************)
EXTENDS Naturals, Sequences, FiniteSets, TLC

\* Bounds of the model: the statement has at most MaxFields fields and at
\* most MaxSources sources.
MaxFields == 3
MaxSources == 2

\* A nil pointer.
nil == 0

\* exp := 1 in compileFunction.
ExpectedArgs == 1

----------------------------------------------------------------------------
(* influxql expressions, as far as the compiler looks at them.             *)

VarRef(val) == [kind |-> "VarRef", name |-> val, args |-> <<>>]
Literal == [kind |-> "Literal", name |-> "1", args |-> <<>>]
Call(name, args) == [kind |-> "Call", name |-> name, args |-> args]
BinaryExpr(lhs, rhs) == [kind |-> "BinaryExpr", name |-> "+", args |-> <<lhs, rhs>>]

\* The function names the statements of the model use: the seven of the
\* dispatch in compileExpr, and top, which the meta switch of
\* compileFunction and validateFields know.
CallNames == {"count", "sum", "mean", "min", "max", "first", "last", "top"}

\* The fields a statement of the model is made of.
Exprs ==
    {VarRef("time"), VarRef("a"), VarRef("b"), Literal}
    \cup {Call(n, <<VarRef("a")>>) : n \in CallNames}
    \cup {Call("count", <<Call("distinct", <<VarRef("a")>>)>>),
          Call("min", <<Literal>>),
          Call("max", <<>>),
          Call("top", <<VarRef("a"), Literal>>)}
    \cup {BinaryExpr(VarRef("a"), VarRef("a")),
          BinaryExpr(VarRef("a"), VarRef("b")),
          BinaryExpr(Call("max", <<VarRef("a")>>), VarRef("b")),
          BinaryExpr(Call("sum", <<VarRef("a")>>), VarRef("b")),
          BinaryExpr(VarRef("time"), VarRef("a")),
          BinaryExpr(BinaryExpr(VarRef("a"), VarRef("b")), VarRef("a")),
          BinaryExpr(VarRef("a"), Literal),
          BinaryExpr(Literal, VarRef("a"))}

\* The kinds of influxql.Source: a named measurement, and one that is not.
SourceKinds == {"Measurement", "SubQuery"}

SourceLists == UNION {[1..n -> SourceKinds] : n \in 0..MaxSources}

----------------------------------------------------------------------------
(* Errors.  An error is its format string and the arguments formatted      *)
(* into it; NoError is a nil error.                                        *)

Errorf(fmt, args) == [fmt |-> fmt, args |-> args]
NoError == Errorf("", <<>>)

ErrUnimplemented == "unimplemented"
ErrArgs == "invalid number of arguments for %s, expected %d, got %d"
ErrFieldArg == "expected field argument in %s()"
ErrNoField == "at least 1 non-time field must be queried"
ErrMixing == "mixing aggregate and non-aggregate queries is not supported"
ErrSelectors == "mixing multiple selector functions with tags or fields is not supported"
ErrTopBottom == "selector function %s() cannot be combined with other functions"

----------------------------------------------------------------------------
(* The graph primitives.  c is the compiledStatement together with the     *)
(* arena of the nodes and edges allocated so far.                          *)

NewNode(kind, name, source) ==
    [kind |-> kind, Name |-> name, Source |-> source,
     Inputs |-> <<>>, Outputs |-> <<>>, Refs |-> <<>>, Iters |-> <<>>]

\* Allocates a node; its number is Len(c.nodes) + 1.
Alloc(c, node) == [c EXCEPT !.nodes = Append(@, node)]

\* NewEdge(node): a fresh edge produced by node, not yet consumed.
NewEdge(c, node) ==
    [c EXCEPT !.edges = Append(@, [Producer |-> node, Consumer |-> nil])]

\* AddEdge(from, to): a fresh edge produced by from and consumed by to.
AddEdge(c, from, to) ==
    [c EXCEPT !.edges = Append(@, [Producer |-> from, Consumer |-> to])]

\* The number of the edge the last NewEdge or AddEdge made.
LastEdge(c) == Len(c.edges)

\* merge.AddInput(ic): an edge from ic into merge, appended to its inputs.
AddInput(c, merge, ic) ==
    LET c1 == AddEdge(c, ic, merge)
    IN  [c1 EXCEPT !.nodes[merge].Inputs = Append(@, LastEdge(c1))]

\* The position of ref among the references of the AuxiliaryFields node.
RefIndex(refs, ref) ==
    IF \E i \in 1..Len(refs) : refs[i] = ref
    THEN CHOOSE i \in 1..Len(refs) : refs[i] = ref
    ELSE 0

\* AuxiliaryFields.Iterator(ref): the output edge of ref, made on the first
\* request of that name and shared by every later one.
Iterator(c, ref) ==
    LET aux == c.AuxiliaryFields
        i   == RefIndex(c.nodes[aux].Refs, ref.name)
    IN  IF i # 0
        THEN [c |-> c, out |-> c.nodes[aux].Iters[i]]
        ELSE LET c1 == NewEdge(c, aux)
                 e  == LastEdge(c1)
             IN  [c   |-> [c1 EXCEPT !.nodes[aux].Refs = Append(@, ref.name),
                                     !.nodes[aux].Iters = Append(@, e)],
                  out |-> e]

\* OutputEdge.Insert(node): splits edge e.  A new edge takes over e's
\* producer and is consumed by node; e itself is from now on produced by
\* node.  Returns the new edge (node's input); e is node's output.
Insert(c, e, node) ==
    LET from == c.edges[e].Producer
        c1   == AddEdge(c, from, node)
        in   == LastEdge(c1)
        outs == c1.nodes[from].Outputs
    IN  [c  |-> [c1 EXCEPT !.edges[e].Producer = node,
                           !.nodes[from].Outputs =
                               [k \in 1..Len(outs) |-> IF outs[k] = e THEN in ELSE outs[k]]],
         in |-> in]

----------------------------------------------------------------------------
(* The compiler.  A compile step returns the compiler it leaves behind,    *)
(* the output edge, the error (NoError for nil) and whether it panicked.   *)

Ok(c, out) == [c |-> c, out |-> out, err |-> NoError, panic |-> FALSE]
Fail(c, err) == [c |-> c, out |-> nil, err |-> err, panic |-> FALSE]
Panic(c) == [c |-> c, out |-> nil, err |-> NoError, panic |-> TRUE]

\* newCompiler and the copy of the sources: the state Compile starts from.
newCompiler(sources) ==
    [Sources |-> sources,
     FunctionCalls |-> <<>>,
     OnlySelectors |-> TRUE,
     TopBottomFunction |-> "",
     AuxiliaryFields |-> nil,
     OutputEdges |-> <<>>,
     nodes |-> <<>>,
     edges |-> <<>>]

\* addSources with a slip: a source that is no measurement is passed over
\* where the code panics.
RECURSIVE addSourcesSkip(_, _, _, _)
addSourcesSkip(c, merge, expr, i) ==
    IF i > Len(c.Sources) THEN [c |-> c, panic |-> FALSE]
    ELSE IF c.Sources[i] = "Measurement"
    THEN LET c1 == Alloc(c, NewNode("IteratorCreator", expr, i))
             ic == Len(c1.nodes)
             c2 == AddInput(c1, merge, ic)
             c3 == [c2 EXCEPT !.nodes[ic].Outputs = <<LastEdge(c2)>>]
         IN  addSourcesSkip(c3, merge, expr, i + 1)
    ELSE addSourcesSkip(c, merge, expr, i + 1)

\* The loop over c.Sources from source number i on: one IteratorCreator per
\* measurement, reading expr ("" reads the auxiliary fields only), added as
\* an input of merge; any other kind of source panics.
RECURSIVE addSources(_, _, _, _)
addSources(c, merge, expr, i) ==
    IF i > Len(c.Sources) THEN [c |-> c, panic |-> FALSE]
    ELSE IF c.Sources[i] = "Measurement"
    THEN LET c1 == Alloc(c, NewNode("IteratorCreator", expr, i))
             ic == Len(c1.nodes)
             c2 == AddInput(c1, merge, ic)
             c3 == [c2 EXCEPT !.nodes[ic].Outputs = <<LastEdge(c2)>>]
         IN  addSources(c3, merge, expr, i + 1)
    ELSE [c |-> c, panic |-> TRUE]

\* IsSelector with a slip: first is missing from the selector names.
IsSelectorNoFirst(name) == name \in {"max", "min", "last", "percentile", "sample"}

\* The meta switch of compileFunction.
IsTopBottom(name) == name \in {"top", "bottom"}
IsSelector(name) == name \in {"max", "min", "first", "last", "percentile", "sample"}

markFunction(c, name) ==
    IF IsTopBottom(name)
    THEN IF c.TopBottomFunction = ""
         THEN [c EXCEPT !.TopBottomFunction = name]
         ELSE c
    ELSE IF IsSelector(name) THEN c
    ELSE [c EXCEPT !.OnlySelectors = FALSE]

compileFunction(c, expr) ==
    IF Len(expr.args) # ExpectedArgs
    THEN Fail(c, Errorf(ErrArgs, <<expr.name, ToString(ExpectedArgs),
                                   ToString(Len(expr.args))>>))
    ELSE IF /\ expr.name = "count"
            /\ expr.args[1].kind = "Call"
            /\ expr.args[1].name = "distinct"
    THEN Fail(c, Errorf(ErrUnimplemented, <<>>))
    ELSE IF expr.args[1].kind # "VarRef"
    THEN Fail(c, Errorf(ErrFieldArg, <<expr.name>>))
    ELSE LET c1    == Alloc(c, NewNode("Merge", "", nil))
             merge == Len(c1.nodes)
             r     == addSources(c1, merge, expr.args[1].name, 1)
         IN  IF r.panic THEN Panic(r.c)
             ELSE LET c2   == Alloc(r.c, NewNode("FunctionCall", expr.name, nil))
                      call == Len(c2.nodes)
                      c3   == AddEdge(c2, merge, call)
                      c4   == [c3 EXCEPT !.nodes[merge].Outputs = <<LastEdge(c3)>>,
                                         !.nodes[call].Inputs = <<LastEdge(c3)>>]
                      c5   == markFunction(c4, expr.name)
                      c6   == NewEdge(c5, call)
                      out  == LastEdge(c6)
                  IN  Ok([c6 EXCEPT !.nodes[call].Outputs = <<out>>,
                                    !.FunctionCalls = Append(@, out)],
                         out)

\* The function names compileExpr hands to compileFunction.
IsCompiledCall(name) ==
    name \in {"count", "min", "max", "sum", "first", "last", "mean"}

\* ensureAuxiliaryFields with a slip: the nil test is missing, every
\* variable reference instantiates a node of its own.
ensureAuxiliaryFieldsAlways(c) ==
    LET c1 == Alloc(c, NewNode("AuxiliaryFields", "", nil))
    IN  [c1 EXCEPT !.AuxiliaryFields = Len(c1.nodes)]

\* If there is no instance of AuxiliaryFields, instantiate one now.
ensureAuxiliaryFields(c) ==
    IF c.AuxiliaryFields = nil
    THEN LET c1 == Alloc(c, NewNode("AuxiliaryFields", "", nil))
         IN  [c1 EXCEPT !.AuxiliaryFields = Len(c1.nodes)]
    ELSE c

RECURSIVE compileExpr(_, _)
compileExpr(c, expr) ==
    IF expr.kind = "VarRef"
    THEN LET r == Iterator(ensureAuxiliaryFields(c), expr)
         IN  Ok(r.c, r.out)
    ELSE IF expr.kind = "Call"
    THEN IF IsCompiledCall(expr.name)
         THEN compileFunction(c, expr)
         ELSE Fail(c, Errorf(ErrUnimplemented, <<>>))
    ELSE IF /\ expr.kind = "BinaryExpr"
            /\ expr.args[1].kind # "Literal"
            /\ expr.args[2].kind # "Literal"
    THEN LET lhs == compileExpr(c, expr.args[1])
         IN  IF lhs.panic \/ lhs.err # NoError THEN [lhs EXCEPT !.out = nil]
             ELSE LET rhs == compileExpr(lhs.c, expr.args[2])
                  IN  IF rhs.panic \/ rhs.err # NoError THEN [rhs EXCEPT !.out = nil]
                      ELSE LET c1   == Alloc(rhs.c, NewNode("BinaryExpr", expr.name, nil))
                               node == Len(c1.nodes)
                               c2   == [c1 EXCEPT !.nodes[node].Inputs = <<lhs.out, rhs.out>>,
                                                  !.edges[lhs.out].Consumer = node,
                                                  !.edges[rhs.out].Consumer = node]
                               c3   == NewEdge(c2, node)
                               out  == LastEdge(c3)
                           IN  Ok([c3 EXCEPT !.nodes[node].Outputs = <<out>>], out)
    ELSE Fail(c, Errorf(ErrUnimplemented, <<>>))

\* linkError with a slip: the two tests on auxiliary fields are swapped.
linkErrorSelectorsFirst(c) ==
    IF c.AuxiliaryFields = nil
    THEN IF Len(c.FunctionCalls) = 0 THEN Errorf(ErrNoField, <<>>) ELSE NoError
    ELSE IF Len(c.FunctionCalls) > 1 THEN Errorf(ErrSelectors, <<>>)
    ELSE IF ~c.OnlySelectors THEN Errorf(ErrMixing, <<>>)
    ELSE NoError

\* linkError with a slip: one function call already counts as several.
linkErrorOffByOne(c) ==
    IF c.AuxiliaryFields = nil
    THEN IF Len(c.FunctionCalls) = 0 THEN Errorf(ErrNoField, <<>>) ELSE NoError
    ELSE IF ~c.OnlySelectors THEN Errorf(ErrMixing, <<>>)
    ELSE IF Len(c.FunctionCalls) >= 1 THEN Errorf(ErrSelectors, <<>>)
    ELSE NoError

\* linkError with a slip: the test for function calls is missing when
\* there are no auxiliary fields.
linkErrorNoFieldTest(c) ==
    IF c.AuxiliaryFields = nil THEN NoError
    ELSE IF ~c.OnlySelectors THEN Errorf(ErrMixing, <<>>)
    ELSE IF Len(c.FunctionCalls) > 1 THEN Errorf(ErrSelectors, <<>>)
    ELSE NoError

\* The errors linkAuxiliaryFields returns before it changes the graph.
linkError(c) ==
    IF c.AuxiliaryFields = nil
    THEN IF Len(c.FunctionCalls) = 0 THEN Errorf(ErrNoField, <<>>) ELSE NoError
    ELSE IF ~c.OnlySelectors THEN Errorf(ErrMixing, <<>>)
    ELSE IF Len(c.FunctionCalls) > 1 THEN Errorf(ErrSelectors, <<>>)
    ELSE NoError

linkAuxiliaryFields(c) ==
    IF linkError(c) # NoError THEN Fail(c, linkError(c))
    ELSE IF c.AuxiliaryFields = nil THEN Ok(c, nil)
    ELSE IF Len(c.FunctionCalls) = 1
    THEN LET aux == c.AuxiliaryFields
             r   == Insert(c, c.FunctionCalls[1], aux)
         IN  Ok([r.c EXCEPT !.nodes[aux].Inputs = <<r.in>>,
                            !.nodes[aux].Outputs = <<c.FunctionCalls[1]>>],
                nil)
    ELSE LET aux   == c.AuxiliaryFields
             c1    == Alloc(c, NewNode("Merge", "", nil))
             merge == Len(c1.nodes)
             r     == addSources(c1, merge, "", 1)
         IN  IF r.panic THEN Panic(r.c)
             ELSE LET c2 == AddEdge(r.c, merge, aux)
                  IN  Ok([c2 EXCEPT !.nodes[merge].Outputs = <<LastEdge(c2)>>,
                                    !.nodes[aux].Inputs = <<LastEdge(c2)>>],
                         nil)

validateFields(c) ==
    IF Len(c.FunctionCalls) > 1 /\ c.TopBottomFunction # ""
    THEN Errorf(ErrTopBottom, <<c.TopBottomFunction>>)
    ELSE NoError

\* IsBareTime with a slip: the name of the reference is not looked at.
IsBareTimeAnyRef(expr) == expr.kind = "VarRef"

\* The test of the loop of Compile that skips a field.
IsBareTime(expr) == expr.kind = "VarRef" /\ expr.name = "time"

\* One turn of the loop of Compile over field f.
compileField(c, f) ==
    IF IsBareTime(f) THEN Ok(c, nil)
    ELSE LET r == compileExpr(c, f)
         IN  IF r.panic \/ r.err # NoError THEN r
             ELSE Ok([r.c EXCEPT !.OutputEdges = Append(@, r.out)], r.out)

\* The calls of plan.AddTarget Select makes, after those made before.
selectTargets(targets, edges) == targets \o edges

----------------------------------------------------------------------------
(* The state machine.  Compile reads stmt.Fields one field per turn of its *)
(* loop: fields holds the fields read so far, and the statement ends when  *)
(* the loop does.                                                          *)

VARIABLES
    pc,       \* where the caller is: "fields", "validate", "done",
              \* "selected", or "error", "panic" once Compile has ended so
    fields,   \* stmt.Fields, as far as the loop of Compile has read them
    c,        \* the compiledStatement and the graph it has built
    err,      \* the error Compile returned, NoError for nil
    targets,  \* the plan: the edges handed to plan.AddTarget, in call order
    ret       \* what Select returned

vars == <<pc, fields, c, err, targets, ret>>

NoReturn == [edges |-> <<>>, err |-> NoError, returned |-> FALSE]

Init ==
    /\ pc = "fields"
    /\ fields = <<>>
    /\ c \in {newCompiler(s) : s \in SourceLists}
    /\ err = NoError
    /\ targets = <<>>
    /\ ret = NoReturn

\* What the state becomes after a step of Compile that returned r and goes
\* on at next if it neither failed nor panicked.
Continue(r, next) ==
    /\ c' = r.c
    /\ err' = r.err
    /\ pc' = IF r.panic THEN "panic"
             ELSE IF r.err # NoError THEN "error"
             ELSE next

CompileField ==
    /\ pc = "fields"
    /\ Len(fields) < MaxFields
    /\ \E f \in Exprs :
          /\ fields' = Append(fields, f)
          /\ Continue(compileField(c, f), "fields")
    /\ UNCHANGED <<targets, ret>>

LinkAuxiliaryFields ==
    /\ pc = "fields"
    /\ Continue(linkAuxiliaryFields(c), "validate")
    /\ UNCHANGED <<fields, targets, ret>>

ValidateFields ==
    /\ pc = "validate"
    /\ Continue(Fail(c, validateFields(c)), "done")
    /\ UNCHANGED <<fields, targets, ret>>

Select ==
    /\ pc = "done"
    /\ targets' = selectTargets(targets, c.OutputEdges)
    /\ ret' = [edges |-> c.OutputEdges, err |-> NoError, returned |-> TRUE]
    /\ pc' = "selected"
    /\ UNCHANGED <<fields, c, err>>

Next == CompileField \/ LinkAuxiliaryFields \/ ValidateFields \/ Select

Spec == Init /\ [][Next]_vars

----------------------------------------------------------------------------
(* What the properties speak of.                                           *)

Range(seq) == {seq[i] : i \in DOMAIN seq}

\* Compile has returned or panicked; it returned a compiled statement.
Ended == pc \in {"done", "selected", "error", "panic"}
Succeeded == pc \in {"done", "selected"}

\* The requested fields that are not a bare `time` reference, in order.
NotTime(f) == f # VarRef("time")
Requested == SelectSeq(fields, NotTime)

AllMeasurements == \A i \in DOMAIN c.Sources : c.Sources[i] = "Measurement"

\* The function calls of an expression that are fields or operands (not
\* arguments of another call) and whose name is in names.
RECURSIVE CountCalls(_, _)
CountCalls(expr, names) ==
    IF expr.kind = "Call" THEN (IF expr.name \in names THEN 1 ELSE 0)
    ELSE IF expr.kind = "BinaryExpr"
    THEN CountCalls(expr.args[1], names) + CountCalls(expr.args[2], names)
    ELSE 0

RECURSIVE CountAll(_, _)
CountAll(seq, names) ==
    IF seq = <<>> THEN 0
    ELSE CountCalls(Head(seq), names) + CountAll(Tail(seq), names)

\* The raw field references of an expression: the variable references that
\* are fields or operands, `time` left out.
RECURSIVE RawRefs(_)
RawRefs(expr) ==
    IF expr.kind = "VarRef" THEN {expr.name} \ {"time"}
    ELSE IF expr.kind = "BinaryExpr"
    THEN RawRefs(expr.args[1]) \cup RawRefs(expr.args[2])
    ELSE {}

\* The variables an expression reads through the AuxiliaryFields node.
RECURSIVE VarRefs(_)
VarRefs(expr) ==
    IF expr.kind = "VarRef" THEN {expr.name}
    ELSE IF expr.kind = "BinaryExpr"
    THEN VarRefs(expr.args[1]) \cup VarRefs(expr.args[2])
    ELSE {}

AllRawRefs == UNION {RawRefs(fields[i]) : i \in DOMAIN fields}

Aggregates == {"count", "sum", "mean"}
Selectors == {"max", "min", "first", "last"}

\* A call of one of the seven functions on a single variable reference.
IsPlainCall(f, names) ==
    /\ f.kind = "Call"
    /\ f.name \in names
    /\ Len(f.args) = 1
    /\ f.args[1].kind = "VarRef"

\* Field f, compiled by a compiler of its own over the same sources,
\* neither fails nor panics.
CompilesAlone(f) ==
    LET r == compileField(newCompiler(c.Sources), f)
    IN  ~r.panic /\ r.err = NoError

\* The node that computes the values of edge e: its producer, or, when the
\* AuxiliaryFields node was spliced in front of e, the producer of that
\* node's input.
Origin(e) ==
    LET p == c.edges[e].Producer
    IN  IF c.nodes[p].kind = "AuxiliaryFields" /\ e \in Range(c.nodes[p].Outputs)
        THEN c.edges[c.nodes[p].Inputs[1]].Producer
        ELSE p

\* Edge e carries the values of expression expr.
RECURSIVE Denotes(_, _)
Denotes(e, expr) ==
    IF expr.kind = "VarRef"
    THEN /\ c.AuxiliaryFields # nil
         /\ \E i \in DOMAIN c.nodes[c.AuxiliaryFields].Refs :
               /\ c.nodes[c.AuxiliaryFields].Refs[i] = expr.name
               /\ c.nodes[c.AuxiliaryFields].Iters[i] = e
    ELSE IF expr.kind = "Call"
    THEN /\ c.nodes[Origin(e)].kind = "FunctionCall"
         /\ c.nodes[Origin(e)].Name = expr.name
         /\ LET merge == c.edges[c.nodes[Origin(e)].Inputs[1]].Producer
            IN  /\ c.nodes[merge].kind = "Merge"
                /\ Len(c.nodes[merge].Inputs) = Len(c.Sources)
                /\ \A k \in DOMAIN c.nodes[merge].Inputs :
                      LET ic == c.edges[c.nodes[merge].Inputs[k]].Producer
                      IN  /\ c.nodes[ic].kind = "IteratorCreator"
                          /\ c.nodes[ic].Name = expr.args[1].name
                          /\ c.nodes[ic].Source = k
    ELSE IF expr.kind = "BinaryExpr"
    THEN /\ c.nodes[Origin(e)].kind = "BinaryExpr"
         /\ Len(c.nodes[Origin(e)].Inputs) = 2
         /\ Denotes(c.nodes[Origin(e)].Inputs[1], expr.args[1])
         /\ Denotes(c.nodes[Origin(e)].Inputs[2], expr.args[2])
    ELSE FALSE

----------------------------------------------------------------------------
(* The properties.                                                         *)

\* C1: when Compile succeeds, OutputEdges has exactly one entry per
\* requested field that is not a bare `time` reference, entry i being the
\* edge of the i-th such field; a bare `time` adds no entry and no node.
C1_OutputEdgesAligned ==
    Succeeded =>
        /\ Len(c.OutputEdges) = Len(Requested)
        /\ \A i \in DOMAIN Requested : Denotes(c.OutputEdges[i], Requested[i])
        /\ c.AuxiliaryFields # nil =>
              Range(c.nodes[c.AuxiliaryFields].Refs) =
                  UNION {VarRefs(Requested[i]) : i \in DOMAIN Requested}

\* C1 witness: a compiled statement with a bare `time` among three fields,
\* the other two different.
C1_Witness ==
    /\ pc = "done"
    /\ Len(fields) = 3
    /\ \E i \in DOMAIN fields : fields[i] = VarRef("time")
    /\ Len(c.OutputEdges) = 2
    /\ Requested[1] # Requested[2]

\* How often edge e was handed to plan.AddTarget.
Registrations(e) == Cardinality({k \in DOMAIN targets : targets[k] = e})

\* C2: after Select, every result edge has been registered with the plan
\* exactly once, in field order, and Select returned the result list and a
\* nil error.
C2_SelectRegistersOnce ==
    pc = "selected" =>
        /\ ret.returned
        /\ ret.edges = c.OutputEdges
        /\ ret.err = NoError
        /\ \A e \in Range(c.OutputEdges) : Registrations(e) = 1
        /\ \A i, j \in DOMAIN targets :
              i < j => \E k, l \in DOMAIN c.OutputEdges :
                          /\ k < l
                          /\ c.OutputEdges[k] = targets[i]
                          /\ c.OutputEdges[l] = targets[j]

OnlyVarRefs == \A i \in DOMAIN fields : fields[i].kind = "VarRef"

AuxNodes == {n \in DOMAIN c.nodes : c.nodes[n].kind = "AuxiliaryFields"}

\* What C3 says Compile produces for a statement of variable references.
SharedAuxiliaryFields ==
    /\ Succeeded
    /\ Len(c.OutputEdges) = Len(Requested)
    /\ c.AuxiliaryFields # nil
    /\ AuxNodes = {c.AuxiliaryFields}
    /\ \A i \in DOMAIN c.OutputEdges :
          /\ c.edges[c.OutputEdges[i]].Producer = c.AuxiliaryFields
          /\ c.OutputEdges[i] \in Range(c.nodes[c.AuxiliaryFields].Iters)
    /\ Len(c.nodes[c.AuxiliaryFields].Iters) = Cardinality(Range(Requested))
    /\ Cardinality(Range(c.nodes[c.AuxiliaryFields].Iters)) = Cardinality(Range(Requested))
    /\ \A i, j \in DOMAIN Requested :
          (Requested[i] = Requested[j]) <=> (c.OutputEdges[i] = c.OutputEdges[j])

\* C3 as stated: every statement of variable references only compiles,
\* with one output edge per field from one shared AuxiliaryFields node.
C3_Original ==
    (Ended /\ fields # <<>> /\ OnlyVarRefs) =>
        (SharedAuxiliaryFields /\ Len(c.OutputEdges) = Len(fields))

\* C3 amended: a statement over measurements only whose fields are all
\* variable references, at least one of them not a bare `time`, compiles;
\* it has one output edge per field that is not a bare `time`, all from one
\* shared AuxiliaryFields node with as many distinct output edges as
\* distinct variables other than `time`; equal references share one edge.
C3_VarRefsShareAuxiliaryFields ==
    (Ended /\ OnlyVarRefs /\ Requested # <<>> /\ AllMeasurements) =>
        SharedAuxiliaryFields

\* C3 witness: a compiled statement of three references, two of them the
\* same variable.
C3_Witness ==
    /\ pc = "done"
    /\ OnlyVarRefs
    /\ Len(Requested) = 3
    /\ Cardinality(Range(Requested)) = 2
    /\ Len(c.Sources) > 0

\* C4: when every field compiles on its own and the statement has a count,
\* sum or mean call and a raw field reference other than `time`, Compile
\* fails with the mixing error, whatever else the statement holds.
C4_MixingAggregate ==
    (/\ pc # "fields"
     /\ \A i \in DOMAIN fields : CompilesAlone(fields[i])
     /\ CountAll(fields, Aggregates) > 0
     /\ AllRawRefs # {}) =>
        (pc = "error" /\ err = Errorf(ErrMixing, <<>>))

\* C4 witness: the mixing error for a raw field followed by a selector and
\* an aggregate, where the multiple-selector error would apply as well.
C4_Witness ==
    /\ pc = "error"
    /\ err = Errorf(ErrMixing, <<>>)
    /\ Len(fields) = 3
    /\ fields[1] = VarRef("a")
    /\ IsPlainCall(fields[2], Selectors)
    /\ IsPlainCall(fields[3], Aggregates)
    /\ Len(c.FunctionCalls) = 2

\* An expression made of variable references and of selector calls on one
\* variable reference.
RECURSIVE IsSelectorExpr(_)
IsSelectorExpr(expr) ==
    IF expr.kind = "VarRef" THEN TRUE
    ELSE IF expr.kind = "Call" THEN IsPlainCall(expr, Selectors)
    ELSE IF expr.kind = "BinaryExpr"
    THEN IsSelectorExpr(expr.args[1]) /\ IsSelectorExpr(expr.args[2])
    ELSE FALSE

SelectorStatement == \A i \in DOMAIN fields : IsSelectorExpr(fields[i])

\* What C5 says of a statement of selector calls and raw fields.
SelectorRules ==
    /\ (CountAll(fields, Selectors) >= 2 /\ AllRawRefs = {}) => Succeeded
    /\ (CountAll(fields, Selectors) >= 2 /\ AllRawRefs # {}) =>
          (pc = "error" /\ err = Errorf(ErrSelectors, <<>>))
    /\ (CountAll(fields, Selectors) = 1 /\ AllRawRefs # {}) => Succeeded

\* C5 as stated: two or more selector calls without a raw field compile,
\* with a raw field they fail with the multiple-selector error, and one
\* selector call with raw fields compiles.
C5_Original == (Ended /\ SelectorStatement) => SelectorRules

\* C5 amended: the same, for statements all of whose sources are plain
\* named measurements.
C5_SelectorsAndRawFields ==
    (Ended /\ SelectorStatement /\ AllMeasurements) => SelectorRules

\* C5 witness: two selector calls and a raw field over a measurement, failed
\* with the multiple-selector error.
C5_Witness ==
    /\ pc = "error"
    /\ err = Errorf(ErrSelectors, <<>>)
    /\ SelectorStatement
    /\ CountAll(fields, Selectors) = 2
    /\ Len(c.Sources) > 0
    /\ AllMeasurements

\* A top call on a variable reference, with or without further arguments.
IsTopCall(f) ==
    /\ f.kind = "Call"
    /\ f.name = "top"
    /\ Len(f.args) >= 1
    /\ f.args[1].kind = "VarRef"

\* C6: over measurements, a statement of one top call, raw fields and other
\* plain function calls compiles when top is its only call, and fails with
\* the top/bottom exclusivity error when there is another call.
C6_TopExclusive ==
    (/\ Ended
     /\ AllMeasurements
     /\ \A i \in DOMAIN fields :
           \/ fields[i].kind = "VarRef"
           \/ IsTopCall(fields[i])
           \/ IsPlainCall(fields[i], CallNames \ {"top"})
     /\ CountAll(fields, {"top"}) = 1) =>
        IF CountAll(fields, CallNames) > 1
        THEN pc = "error" /\ err = Errorf(ErrTopBottom, <<"top">>)
        ELSE Succeeded

\* C7: a statement without a field other than bare `time` fails with the
\* no-field error, and that error is returned only when every field has
\* compiled and left neither an AuxiliaryFields node nor a function call.
C7_NoFieldError ==
    /\ (pc # "fields" /\ Requested = <<>>) =>
          (pc = "error" /\ err = Errorf(ErrNoField, <<>>))
    /\ (pc = "error" /\ err.fmt = ErrNoField) =>
          /\ c.AuxiliaryFields = nil
          /\ c.FunctionCalls = <<>>
          /\ c.nodes = <<>>
          /\ \A i \in DOMAIN fields : CompilesAlone(fields[i])

\* C7 witness: the no-field error for a statement of two bare `time` fields.
C7_Witness ==
    /\ pc = "error"
    /\ err = Errorf(ErrNoField, <<>>)
    /\ fields = <<VarRef("time"), VarRef("time")>>

\* The nodes that hold edge e as an output, and the input slots it fills.
Producers(e) ==
    {n \in DOMAIN c.nodes :
        e \in Range(c.nodes[n].Outputs) \cup Range(c.nodes[n].Iters)}
ConsumerSlots(e) ==
    UNION {{<<n, k>> : k \in {j \in DOMAIN c.nodes[n].Inputs : c.nodes[n].Inputs[j] = e}} :
              n \in DOMAIN c.nodes}

\* C8: in the graph of a compiled statement every edge has exactly one
\* producer and at most one consumer, and a result edge has no consumer.
C8_EdgeDiscipline ==
    Succeeded =>
        \A e \in DOMAIN c.edges :
            /\ Producers(e) = {c.edges[e].Producer}
            /\ Cardinality(ConsumerSlots(e)) <= 1
            /\ e \in Range(c.OutputEdges) =>
                  (ConsumerSlots(e) = {} /\ c.edges[e].Consumer = nil)

AggregateNodes ==
    {n \in DOMAIN c.nodes :
        c.nodes[n].kind = "FunctionCall" /\ c.nodes[n].Name \in Aggregates}

\* The part of C9 that speaks of one state.
C9_State ==
    /\ (/\ Ended
        /\ AllMeasurements
        /\ Len(Requested) = 1
        /\ IsPlainCall(Requested[1], Aggregates \cup Selectors)) =>
          /\ Succeeded
          /\ Len(c.OutputEdges) = 1
          /\ Len(c.FunctionCalls) = 1
          /\ c.OnlySelectors <=> Requested[1].name \in Selectors
    /\ ~c.OnlySelectors <=> AggregateNodes # {}

\* C9: a statement over measurements whose only field besides `time` is one
\* call of count, min, max, sum, first, last or mean on a variable compiles
\* with one result edge and one function call, OnlySelectors being true
\* exactly for max, min, first and last; and all along OnlySelectors is
\* false exactly when a count, sum or mean call has been compiled, and once
\* false it stays false.
C9_OnlySelectors ==
    /\ []C9_State
    /\ [][~c.OnlySelectors => ~c'.OnlySelectors]_vars

\* C9 witness: a compiled statement of `time` and one aggregate call.
C9_Witness ==
    /\ pc = "done"
    /\ Len(fields) = 2
    /\ Len(Requested) = 1
    /\ IsPlainCall(Requested[1], Aggregates)
    /\ ~c.OnlySelectors
    /\ Len(c.Sources) = 2

HasOtherSource == \E i \in DOMAIN c.Sources : c.Sources[i] # "Measurement"

\* The fields before the last one read.
Front(seq) == SubSeq(seq, 1, Len(seq) - 1)

\* C10 as stated: with a source that is no plain measurement, Compile
\* panics for every combination of fields.
C10_Original == (Ended /\ HasOtherSource) => pc = "panic"

\* C10 amended: with a source that is no plain measurement Compile never
\* returns a compiled statement.  It panics, unless it returns an error
\* before it visits the sources: the no-field error when no field other
\* than bare `time` is requested, or the error of a field that fails to
\* compile when no function call came before it.
C10_OtherSourceNeverCompiles ==
    HasOtherSource =>
        /\ pc \in {"fields", "error", "panic"}
        /\ pc = "error" =>
              \/ err = Errorf(ErrNoField, <<>>) /\ Requested = <<>>
              \/ /\ err.fmt \in {ErrUnimplemented, ErrArgs, ErrFieldArg}
                 /\ fields # <<>>
                 /\ CountAll(Front(fields), CallNames) = 0
                 /\ c.FunctionCalls = <<>>

\* C10 witness: a panic on the second source, after a measurement.
C10_Witness ==
    /\ pc = "panic"
    /\ c.Sources = <<"Measurement", "SubQuery">>
    /\ Len(fields) = 2

====
